---- MODULE Spec2Model ----
(***************************************************************************)
(* Block-parallel bzip2 compression: parallel_bzip2.c (the resident        *)
(* strategy: the whole input is loaded once) and parallel_bzip2_mem.c (the *)
(* on-demand strategy: every worker reads its own block).                  *)
(*                                                                         *)
(* Scale.  TLC's integers are 32 bits wide, so the program's 32-bit int    *)
(* and unsigned int cannot be modelled at their width.  The model keeps    *)
(* the program's arithmetic and scales its numbers down together: int and  *)
(* unsigned int are IntBits bits wide, one "kilobyte" is KbBytes bytes and *)
(* the compressor's slack of 600 bytes is OutSlack bytes.  long (64 bits)  *)
(* never overflows at this scale and is an unbounded integer.  With        *)
(* IntBits = 4 and KbBytes = 2 the block sizes 2, 4 and 6 are the valid    *)
(* ones, -b 4 is the first block size whose byte count overflows int (the  *)
(* program's -b 2097152), and a file of UIntMod + 1 = 17 bytes is the      *)
(* program's file of 4 GiB + 1 byte.                                       *)
(***************************************************************************)
EXTENDS Integers, Sequences, FiniteSets, TLC

\* ------------------------------------------------------------ bounds
MaxLen == 5
MaxKb == 4
MaxWorkers == 2
MaxFaults == 2

\* ------------------------------------------------- program constants
IntBits == 4
KbBytes == 2
OutSlack == 2
OutDiv == 100
DefaultKb == 3

UIntMod == 2 ^ IntBits
IntMax == (UIntMod \div 2) - 1
IntMin == -(UIntMod \div 2)

\* ------------------------------------------------------- C arithmetic
InInt(x) == IntMin <= x /\ x <= IntMax

\* Conversion to unsigned int: reduction modulo 2^IntBits.
ToUInt(x) == x % UIntMod

\* Conversion of an out-of-range value to int (gcc: modulo 2^IntBits).
ToInt(x) == LET m == x % UIntMod IN IF m > IntMax THEN m - UIntMod ELSE m

Abs(x) == IF x < 0 THEN -x ELSE x

\* C's integer division truncates toward zero.
CDiv(a, b) ==
  IF (a >= 0) = (b > 0) THEN Abs(a) \div Abs(b) ELSE -(Abs(a) \div Abs(b))

Min(a, b) == IF a <= b THEN a ELSE b

\* int * int.  Signed overflow is undefined: the build either keeps the
\* product in a 32-bit register (it wraps; what gcc -O3 emits on x86-64) or
\* computes it in a wider one (the exact product).
IntMul(a, b) == IF InInt(a * b) THEN {a * b} ELSE {ToInt(a * b), a * b}

\* int BLOCK_SIZE = block_size_kb * 1024
BlockSizeBytes(kb) == IntMul(kb, KbBytes)

\* (a count of floor + 1: one block too many when the length is a multiple)
NumBlocksFloorPlusOne(fs, bs) == ToInt(CDiv(fs, bs) + 1)

\* int num_blocks = (file_size + BLOCK_SIZE - 1) / BLOCK_SIZE: long
\* arithmetic, the quotient converted to int.  bs # 0.
NumBlocks(fs, bs) == ToInt(CDiv(fs + bs - 1, bs))

\* unsigned int offset = i * BLOCK_SIZE (resident): an int product converted
\* to unsigned int; the wrapped and the exact product convert to the same
\* value.
ResidentOffset(i, bs) == ToUInt(ToInt(i * bs))

\* unsigned int offset = (long)i * BLOCK_SIZE (on-demand): a long product
\* converted to unsigned int.
OnDemandOffset(i, bs) == ToUInt(i * bs)

\* unsigned int block_size = BLOCK_SIZE;
\* if (offset + block_size > file_size) block_size = file_size - offset;
\* The sum is an unsigned int (it wraps) compared with the long file_size.
BlockLen(offset, bs, fs) ==
  LET block_size == ToUInt(bs)
  IN  IF ToUInt(offset + block_size) > fs THEN ToUInt(fs - offset)
      ELSE block_size

\* --------------------------------------------------------------- data
Null == [isnull |-> TRUE, bytes |-> <<>>]
Buf(b) == [isnull |-> FALSE, bytes |-> b]

NoFile == [exists |-> FALSE, bytes |-> <<>>]
File(b) == [exists |-> TRUE, bytes |-> b]

\* The file whose byte at position p is p: a wrong offset shows in the bytes.
Ramp(n) == [p \in 1..n |-> p - 1]

FileLens == (0..MaxLen) \cup {UIntMod + 1}
Inputs == {File(Ramp(n)) : n \in FileLens} \cup {NoFile}

\* What a read past the end of a buffer may find there.
JunkBytes == {254, 255}

\* bytes [from, from + n) of s, positions counted from 0; n <= Len(s) - from
Slice(s, from, n) == SubSeq(s, from + 1, from + n)

ZeroBlock == [data |-> Null, size |-> 0, original_size |-> 0]

\* ------------------------------------------------- the block compressor
\* libbz2's BZ2_bzBuffToBuffCompress, by the properties the pipeline relies
\* on: deterministic, and its output is a self-delimiting unit, so that the
\* units of consecutive blocks concatenated decompress to the blocks
\* concatenated.  Here: the block's length, then its bytes.
BZ2Compress(b) == <<Len(b)>> \o b

\* bzip2 -d on a stream of such units.  An empty stream holds no unit and is
\* an error ("Compressed file ends unexpectedly"), as is a truncated unit.
RECURSIVE BunzipUnits(_)
BunzipUnits(s) ==
  IF s = <<>> THEN [ok |-> TRUE, bytes |-> <<>>]
  ELSE LET n == Head(s)
       IN  IF n + 1 > Len(s) THEN [ok |-> FALSE, bytes |-> <<>>]
           ELSE LET r == BunzipUnits(SubSeq(s, n + 2, Len(s)))
                IN  [ok |-> r.ok, bytes |-> SubSeq(s, 2, n + 1) \o r.bytes]

Bunzip(s) ==
  IF s = <<>> THEN [ok |-> FALSE, bytes |-> <<>>] ELSE BunzipUnits(s)

\* unsigned int output_buffer_size = input_size + (input_size / 100) + 600
OutputBufferSize(input_size) ==
  ToUInt(input_size + (input_size \div OutDiv) + OutSlack)

\* -------------------------------------------------------------- state
VARIABLES
  strategy,           \* "resident" (parallel_bzip2.c) or "ondemand" (parallel_bzip2_mem.c)
  input,              \* the input file: whether it exists, and its bytes
  nthreads,           \* the OpenMP team's size
  argv,               \* the command line: -b's value (-1: no -b) and whether
                      \* exactly the two file names follow
  run,                \* 1, or 2 in the second of the benchmark's two runs
  prev,               \* the first run's strategy, team size, status and output
  pc,                 \* where main is
  exit_status,        \* "none" while running, then "ok" (0), "fail" (1) or "crash"
  block_size_kb,
  BLOCK_SIZE,
  file_size,
  num_blocks,
  compressed_blocks,  \* the result table: entry of block i at position i + 1
  file_data,          \* resident: the loaded copy of the input
  compression_errors,
  completed,          \* on-demand: the static progress counter
  next_iter,          \* the next loop iteration the dynamic schedule hands out
  workers,            \* per thread: its place in the loop body and its locals
  fpos,               \* on-demand: the read position of each open FILE handle
  out_file,           \* the output file: whether it exists, and its bytes
  wr_i,               \* write_bzip2_file's loop index
  live,               \* bytes of the buffers that are allocated and not freed
  claimed,            \* history: the loop indices handed out, in order
  out_of_order,       \* history: a block completed before a lower one
  fault_log           \* history: the environment's failures, <<kind, block, run>>

envv == <<strategy, input, nthreads, argv, run, prev>>
mainv == <<pc, exit_status, block_size_kb, BLOCK_SIZE, file_size, num_blocks>>
datav == <<compressed_blocks, file_data, compression_errors, completed>>
parv == <<next_iter, workers, claimed, out_of_order, fpos>>
outv == <<out_file, wr_i>>
vars == <<envv, mainv, datav, parv, outv, live, fault_log>>

Strategies == {"resident", "ondemand"}
KbArgs == 0..MaxKb
Threads == 1..nthreads

IdleWorker ==
  [pc |-> "idle", i |-> 0, offset |-> 0, block_size |-> 0,
   block_data |-> Null, result |-> 0]

NoLive == [in |-> 0, out |-> 0, table |-> 0, file |-> 0]

\* No FILE handle is open on the input (a handle not in use is kept at 0).
NoHandles == [h \in 1..MaxWorkers |-> 0]

\* The environment may fail a call (an allocation, an open, a seek, a read,
\* a write) at most MaxFaults times.
CanFault == Cardinality(fault_log) < MaxFaults
Fault(kind, idx) == fault_log' = fault_log \cup {<<kind, idx, run>>}

NoPrev == [strategy |-> "none", status |-> "none", out |-> NoFile]

\* What a run starts from, whatever ran before it.
Fresh ==
  /\ pc = "args"
  /\ exit_status = "none"
  /\ block_size_kb = DefaultKb
  /\ BLOCK_SIZE = 0
  /\ file_size = 0
  /\ num_blocks = 0
  /\ compressed_blocks = <<>>
  /\ file_data = Null
  /\ compression_errors = 0
  /\ completed = 0
  /\ next_iter = 0
  /\ workers = [w \in 1..MaxWorkers |-> IdleWorker]
  /\ out_file = NoFile
  /\ wr_i = 0
  /\ live = NoLive
  /\ claimed = <<>>
  /\ out_of_order = FALSE
  /\ fpos = NoHandles
  /\ fault_log = {}

Init ==
  /\ strategy \in Strategies
  /\ input \in Inputs
  /\ nthreads \in 1..MaxWorkers
  /\ argv \in [b : KbArgs \cup {-1}, files_ok : BOOLEAN]
  /\ run = 1
  /\ prev = NoPrev
  /\ Fresh

\* ------------------------------------------------------ leaving main
\* cleanup_blocks: frees every entry's data that is not NULL, then the table.
PayloadBytes(blocks) ==
  LET RECURSIVE Sum(_)
      Sum(k) == IF k = 0 THEN 0
                ELSE Sum(k - 1)
                     + (IF blocks[k].data.isnull THEN 0 ELSE Len(blocks[k].data.bytes))
  IN  Sum(Len(blocks))

CleanupBlocks(lv) ==
  [lv EXCEPT !.out = lv.out - PayloadBytes(compressed_blocks), !.table = 0]

\* return <status> from main (or the process is killed: "crash")
Exit(status) == pc' = "done" /\ exit_status' = status

\* --------------------------------------------------------------- main
\* getopt loop, argument count check, BLOCK_SIZE = block_size_kb * 1024
ParseArgs ==
  /\ pc = "args"
  /\ LET kb == IF argv.b = -1 THEN block_size_kb ELSE argv.b
     IN  /\ block_size_kb' = kb
         /\ IF kb <= 0 \/ ~argv.files_ok
            THEN /\ Exit("fail")
                 /\ UNCHANGED BLOCK_SIZE
            ELSE /\ BLOCK_SIZE' \in BlockSizeBytes(kb)
                 /\ pc' = IF strategy = "resident" THEN "open_input" ELSE "stat"
                 /\ UNCHANGED exit_status
  /\ UNCHANGED <<envv, file_size, num_blocks, datav, parv, outv, live, fault_log>>

\* resident: FILE *input_file = fopen(input_filename, "rb")
OpenInput ==
  /\ pc = "open_input"
  /\ \/ /\ input.exists
        /\ pc' = "stat"
        /\ UNCHANGED <<exit_status, fault_log>>
     \/ /\ ~input.exists
        /\ Exit("fail")
        /\ UNCHANGED fault_log
     \/ /\ input.exists /\ CanFault
        /\ Fault("fopen", -1)
        /\ Exit("fail")
  /\ UNCHANGED <<envv, block_size_kb, BLOCK_SIZE, file_size, num_blocks,
                 datav, parv, outv, live>>

\* get_file_size: st_size, or -1 when stat fails
GetFileSize(ok) == IF ok THEN Len(input.bytes) ELSE -1

\* file_size = get_file_size(...); num_blocks = (file_size + BLOCK_SIZE - 1) / BLOCK_SIZE
\* A zero BLOCK_SIZE is a division by zero: the process is killed (SIGFPE).
StatInput ==
  /\ pc = "stat"
  /\ \E ok \in BOOLEAN :
       /\ ok => input.exists
       /\ IF ~ok /\ input.exists
          THEN CanFault /\ Fault("stat", -1)
          ELSE UNCHANGED fault_log
       /\ file_size' = GetFileSize(ok)
       /\ IF BLOCK_SIZE = 0
          THEN /\ Exit("crash")
               /\ UNCHANGED num_blocks
          ELSE /\ num_blocks' = NumBlocks(file_size', BLOCK_SIZE)
               /\ pc' = "calloc"
               /\ UNCHANGED exit_status
  /\ UNCHANGED <<envv, block_size_kb, BLOCK_SIZE, datav, parv, outv, live>>

\* compressed_blocks = calloc(num_blocks, sizeof(CompressedBlock)).  A
\* negative num_blocks converts to a size no allocator grants.
AllocTable ==
  /\ pc = "calloc"
  /\ \/ /\ num_blocks >= 0
        /\ compressed_blocks' = [k \in 1..num_blocks |-> ZeroBlock]
        /\ live' = [live EXCEPT !.table = 1]
        /\ pc' = IF strategy = "resident" THEN "load" ELSE "parallel"
        /\ UNCHANGED <<exit_status, fault_log>>
     \/ /\ num_blocks < 0
        /\ Exit("fail")
        /\ UNCHANGED <<compressed_blocks, live, fault_log>>
     \/ /\ num_blocks >= 0 /\ CanFault
        /\ Fault("calloc", -1)
        /\ Exit("fail")
        /\ UNCHANGED <<compressed_blocks, live>>
  /\ UNCHANGED <<envv, block_size_kb, BLOCK_SIZE, file_size, num_blocks,
                 file_data, compression_errors, completed, parv, outv>>

\* resident: file_data = malloc(file_size); fread(file_data, 1, file_size, input_file)
LoadFile ==
  /\ pc = "load"
  /\ \/ /\ file_size >= 0
        /\ file_data' = Buf(input.bytes)
        /\ live' = [live EXCEPT !.file = 1]
        /\ pc' = "parallel"
        /\ UNCHANGED <<exit_status, fault_log>>
     \/ /\ file_size < 0                       \* malloc((size_t)-1) fails
        /\ live' = [live EXCEPT !.table = 0]
        /\ Exit("fail")
        /\ UNCHANGED <<file_data, fault_log>>
     \/ /\ file_size >= 0 /\ CanFault
        /\ \E kind \in {"malloc", "fread"} : Fault(kind, -1)
        /\ live' = [live EXCEPT !.table = 0]
        /\ Exit("fail")
        /\ UNCHANGED file_data
  /\ UNCHANGED <<envv, block_size_kb, BLOCK_SIZE, file_size, num_blocks,
                 compressed_blocks, compression_errors, completed, parv, outv>>

\* ------------------------------------------------- the parallel loop
\* #pragma omp parallel for schedule(dynamic): for (int i = 0; i < num_blocks; i++)
LoopCond(i, n) == i < n

\* (a schedule that hands the same iteration out again)
NextIterStuck(i) == i

NextIter(i) == i + 1

BlockOffset(i) ==
  IF strategy = "resident" THEN ResidentOffset(i, BLOCK_SIZE)
  ELSE OnDemandOffset(i, BLOCK_SIZE)

\* A thread is inside the loop body.
Busy(w) == workers[w].pc \notin {"idle", "exit"}

\* Thread w ends its iteration; some other thread still holds a lower index.
Overtakes(w) ==
  \E v \in Threads \ {w} : Busy(v) /\ workers[v].i < workers[w].i

\* (schedule(static, 1): iteration i belongs to thread i mod team size)
StaticOwner(w, i) == i % nthreads = w - 1

\* schedule(dynamic): any thread of the team may be handed iteration i
MayClaim(w, i) == TRUE

\* A free thread takes the next iteration and computes the block's offset
\* and length, or leaves the loop when none is left.
ClaimBlock(w) ==
  /\ pc = "parallel"
  /\ workers[w].pc = "idle"
  /\ IF LoopCond(next_iter, num_blocks) /\ MayClaim(w, next_iter)
     THEN LET off == BlockOffset(next_iter)
          IN  /\ workers' = [workers EXCEPT ![w] =
                    [pc |-> "claimed", i |-> next_iter, offset |-> off,
                     block_size |-> BlockLen(off, BLOCK_SIZE, file_size),
                     block_data |-> Null, result |-> 0]]
              /\ next_iter' = NextIter(next_iter)
              /\ claimed' = Append(claimed, next_iter)
     ELSE /\ workers' = [workers EXCEPT ![w].pc = "exit"]
          /\ UNCHANGED <<next_iter, claimed>>
  /\ UNCHANGED <<envv, mainv, datav, out_of_order, fpos, outv, live, fault_log>>

\* compress_block(input, input_size, output): every way it can return.  Each
\* outcome gives the entry it leaves, its return value, the environment's
\* failure it rests on ("none": it needs none) and the bytes it leaves
\* allocated.  A failed realloc leaves the old buffer allocated and stores
\* NULL, and compress_block still returns 0.
CompressBlock(bytes, input_size, old) ==
  LET osize == OutputBufferSize(input_size)
      c == BZ2Compress(bytes)
      failed == [data |-> Null, size |-> osize, original_size |-> input_size]
  IN  {[entry |-> [old EXCEPT !.data = Null], result |-> -1,
        fault |-> "malloc_out", left |-> 0],
       [entry |-> failed, result |-> -1, fault |-> "bz2", left |-> 0]}
      \cup
      (IF Len(c) > osize                           \* BZ_OUTBUFF_FULL
       THEN {[entry |-> failed, result |-> -1, fault |-> "none", left |-> 0]}
       ELSE {[entry |-> [data |-> Buf(c), size |-> Len(c),
                         original_size |-> input_size],
              result |-> 0, fault |-> "none", left |-> Len(c)],
             [entry |-> [data |-> Null, size |-> Len(c),
                         original_size |-> input_size],
              result |-> 0, fault |-> "realloc", left |-> osize]})

\* An outcome the environment can still produce.
Possible(o, i) ==
  /\ o.fault # "none" => CanFault
  /\ IF o.fault = "none" THEN UNCHANGED fault_log ELSE Fault(o.fault, i)

\* if (result != 0) compression_errors++ (atomic)
CountError(result) ==
  compression_errors' =
    IF result # 0 THEN compression_errors + 1 ELSE compression_errors

\* resident: compress_block(file_data + offset, block_size, &compressed_blocks[i])
\* and the error count.  A block that reaches past the end of file_data is
\* read out of bounds: the process is killed, or it reads what lies there.
CompressResident(w) ==
  LET me == workers[w]
      have == Len(file_data.bytes)
      inside == me.offset + me.block_size <= have
      got == IF me.offset >= have THEN <<>>
             ELSE Slice(file_data.bytes, me.offset,
                        Min(me.block_size, have - me.offset))
  IN
  /\ pc = "parallel"
  /\ me.pc = "claimed"
  /\ strategy = "resident"
  /\ \/ /\ \E j \in JunkBytes :
             LET bytes == got \o [k \in 1..(me.block_size - Len(got)) |-> j]
             IN  \E o \in CompressBlock(bytes, me.block_size,
                                        compressed_blocks[me.i + 1]) :
                   /\ Possible(o, me.i)
                   /\ compressed_blocks' =
                        [compressed_blocks EXCEPT ![me.i + 1] = o.entry]
                   /\ CountError(o.result)
                   /\ live' = [live EXCEPT !.out = live.out + o.left]
        /\ workers' = [workers EXCEPT ![w] = [me EXCEPT !.pc = "idle"]]
        /\ out_of_order' = (out_of_order \/ Overtakes(w))
        /\ UNCHANGED <<pc, exit_status>>
     \/ /\ ~inside
        /\ Exit("crash")
        /\ UNCHANGED <<compressed_blocks, compression_errors, live, workers,
                       out_of_order, fault_log>>
  /\ UNCHANGED <<envv, block_size_kb, BLOCK_SIZE, file_size, num_blocks,
                 file_data, completed, next_iter, claimed, fpos, outv>>

\* (a loop body that forgets to free its block)
LeakInput(lv, n) == lv

\* free(block_data)
FreeInput(lv, n) == [lv EXCEPT !.in = lv.in - n]

\* (one FILE handle opened once and used by every thread)
SharedHandle(w) == 1

\* FILE *fp is a local of the loop body, set by the iteration's own fopen:
\* each thread reads through a handle of its own.
HandleOf(w) == w

\* on-demand: FILE *fp = fopen(input_filename, "rb"), which leaves the handle
\* at position 0; a failure is counted and the iteration ends (continue)
OpenBlock(w) ==
  LET me == workers[w]
  IN
  /\ pc = "parallel"
  /\ me.pc = "claimed"
  /\ strategy = "ondemand"
  /\ \/ /\ input.exists
        /\ workers' = [workers EXCEPT ![w] = [me EXCEPT !.pc = "opened"]]
        /\ fpos' = [fpos EXCEPT ![HandleOf(w)] = 0]
        /\ UNCHANGED <<compression_errors, out_of_order, fault_log>>
     \/ /\ IF input.exists
           THEN CanFault /\ Fault("fopen", me.i)
           ELSE UNCHANGED fault_log
        /\ CountError(-1)
        /\ workers' = [workers EXCEPT ![w] = [me EXCEPT !.pc = "idle"]]
        /\ out_of_order' = (out_of_order \/ Overtakes(w))
        /\ UNCHANGED fpos
  /\ UNCHANGED <<envv, mainv, compressed_blocks, file_data, completed,
                 next_iter, claimed, outv, live>>

\* on-demand: block_data = malloc(block_size); a failure closes the file, is
\* counted and ends the iteration.  Then fseek(fp, offset, SEEK_SET), whose
\* result is not looked at: a failed seek leaves the handle where it was.
AllocBlock(w) ==
  LET me == workers[w]
      h == HandleOf(w)
  IN
  /\ pc = "parallel"
  /\ me.pc = "opened"
  /\ \/ /\ workers' = [workers EXCEPT ![w] =
                         [me EXCEPT !.pc = "alloc", !.block_data = Buf(<<>>)]]
        /\ live' = [live EXCEPT !.in = live.in + me.block_size]
        /\ \/ /\ fpos' = [fpos EXCEPT ![h] = me.offset]
              /\ UNCHANGED fault_log
           \/ /\ CanFault
              /\ Fault("fseek", me.i)
              /\ UNCHANGED fpos
        /\ UNCHANGED <<compression_errors, out_of_order>>
     \/ /\ CanFault
        /\ Fault("malloc_in", me.i)
        /\ CountError(-1)
        /\ workers' = [workers EXCEPT ![w] = [me EXCEPT !.pc = "idle"]]
        /\ out_of_order' = (out_of_order \/ Overtakes(w))
        /\ fpos' = [fpos EXCEPT ![h] = 0]                       \* fclose(fp)
        /\ UNCHANGED live
  /\ UNCHANGED <<envv, mainv, compressed_blocks, file_data, completed,
                 next_iter, claimed, outv>>

\* on-demand: bytes_read = fread(block_data, 1, block_size, fp), from the
\* handle's position; fclose(fp); a short read frees the buffer, is counted
\* and ends the iteration
ReadBlock(w) ==
  LET me == workers[w]
      h == HandleOf(w)
      have == Len(input.bytes)
      pos == fpos[h]
      avail == IF pos >= have THEN 0 ELSE have - pos
  IN
  /\ pc = "parallel"
  /\ me.pc = "alloc"
  /\ \E read_ok \in BOOLEAN :
       /\ IF read_ok THEN UNCHANGED fault_log
          ELSE CanFault /\ Fault("fread", me.i)
       /\ IF read_ok /\ me.block_size <= avail
          THEN /\ workers' = [workers EXCEPT ![w] =
                    [me EXCEPT !.pc = "read",
                       !.block_data = Buf(Slice(input.bytes, pos, me.block_size))]]
               /\ UNCHANGED <<compression_errors, out_of_order, live>>
          ELSE /\ CountError(-1)
               /\ live' = FreeInput(live, me.block_size)
               /\ workers' = [workers EXCEPT ![w] =
                    [me EXCEPT !.pc = "idle", !.block_data = Null]]
               /\ out_of_order' = (out_of_order \/ Overtakes(w))
  /\ fpos' = [fpos EXCEPT ![h] = 0]                             \* fclose(fp)
  /\ UNCHANGED <<envv, mainv, compressed_blocks, file_data, completed,
                 next_iter, claimed, outv>>

\* on-demand: result = compress_block(block_data, block_size, &compressed_blocks[i])
CompressOnDemand(w) ==
  LET me == workers[w]
  IN
  /\ pc = "parallel"
  /\ me.pc = "read"
  /\ \E o \in CompressBlock(me.block_data.bytes, me.block_size,
                            compressed_blocks[me.i + 1]) :
       /\ Possible(o, me.i)
       /\ compressed_blocks' = [compressed_blocks EXCEPT ![me.i + 1] = o.entry]
       /\ live' = [live EXCEPT !.out = live.out + o.left]
       /\ workers' = [workers EXCEPT ![w] =
                        [me EXCEPT !.pc = "compressed", !.result = o.result]]
  /\ UNCHANGED <<envv, mainv, file_data, compression_errors, completed,
                 next_iter, claimed, out_of_order, fpos, outv>>

\* on-demand: free(block_data); the error count; the progress counter
FinishBlock(w) ==
  LET me == workers[w]
  IN
  /\ pc = "parallel"
  /\ me.pc = "compressed"
  /\ live' = FreeInput(live, me.block_size)
  /\ CountError(me.result)
  /\ completed' = completed + 1
  /\ workers' = [workers EXCEPT ![w] =
                   [me EXCEPT !.pc = "idle", !.block_data = Null]]
  /\ out_of_order' = (out_of_order \/ Overtakes(w))
  /\ UNCHANGED <<envv, mainv, compressed_blocks, file_data, next_iter,
                 claimed, fpos, outv, fault_log>>

\* (a loop with nowait: the first thread out goes on alone)
FirstJoined == \E w \in Threads : workers[w].pc = "exit"

\* (a barrier that waits for a mark no thread sets)
NoneJoined == \A w \in Threads : workers[w].pc = "joined"

\* The implicit barrier at the end of the parallel for: every thread of the
\* team has left the loop.
TeamJoined == \A w \in Threads : workers[w].pc = "exit"

\* The loop's implicit barrier, then
\* if (compression_errors > 0) { cleanup_blocks(...); [free(file_data);] return 1; }
Barrier ==
  /\ pc = "parallel"
  /\ TeamJoined
  /\ IF compression_errors > 0
     THEN /\ live' = [CleanupBlocks(live) EXCEPT !.file = 0]
          /\ Exit("fail")
     ELSE /\ pc' = "write"
          /\ UNCHANGED <<exit_status, live>>
  /\ UNCHANGED <<envv, block_size_kb, BLOCK_SIZE, file_size, num_blocks,
                 datav, parv, outv, fault_log>>

\* --------------------------------------------------------- the writer
\* write_bzip2_file: output = fopen(output_filename, "wb"); on failure main
\* cleans up and returns 1
OpenOutput ==
  /\ pc = "write"
  /\ \/ /\ out_file' = File(<<>>)
        /\ wr_i' = 0
        /\ pc' = "writing"
        /\ UNCHANGED <<exit_status, live, fault_log>>
     \/ /\ CanFault
        /\ Fault("fopen_out", -1)
        /\ live' = [CleanupBlocks(live) EXCEPT !.file = 0]
        /\ Exit("fail")
        /\ UNCHANGED outv
  /\ UNCHANGED <<envv, block_size_kb, BLOCK_SIZE, file_size, num_blocks,
                 datav, parv>>

\* (a writer that puts each block before the ones already written)
WritePrepended(bytes, data) == data \o bytes

\* fwrite to a stream opened "wb": the bytes go after the ones written so far
WriteAppended(bytes, data) == bytes \o data

\* written = fwrite(blocks[i].data, 1, blocks[i].size, output); a short write
\* closes the file and returns -1, and main cleans up and returns 1.  A
\* NULL data with a size above 0 is read through: the process is killed, or
\* the write fails with nothing written.
WriteBlock ==
  LET b == compressed_blocks[wr_i + 1]
  IN
  /\ pc = "writing"
  /\ wr_i < num_blocks
  /\ \/ /\ ~b.data.isnull \/ b.size = 0
        /\ out_file' = File(WriteAppended(out_file.bytes, b.data.bytes))
        /\ wr_i' = wr_i + 1
        /\ UNCHANGED <<pc, exit_status, live, fault_log>>
     \/ /\ ~b.data.isnull /\ b.size > 0
        /\ CanFault
        /\ Fault("fwrite", wr_i)
        /\ \E n \in 0..(b.size - 1) :
             out_file' = File(WriteAppended(out_file.bytes, SubSeq(b.data.bytes, 1, n)))
        /\ live' = [CleanupBlocks(live) EXCEPT !.file = 0]
        /\ Exit("fail")
        /\ UNCHANGED wr_i
     \/ /\ b.data.isnull /\ b.size > 0
        /\ \/ Exit("crash") /\ UNCHANGED live
           \/ Exit("fail") /\ live' = [CleanupBlocks(live) EXCEPT !.file = 0]
        /\ UNCHANGED <<outv, fault_log>>
  /\ UNCHANGED <<envv, block_size_kb, BLOCK_SIZE, file_size, num_blocks,
                 datav, parv>>

\* fclose(output); return 0; main prints the statistics, cleans up, returns 0
CloseOutput ==
  /\ pc = "writing"
  /\ wr_i >= num_blocks
  /\ live' = [CleanupBlocks(live) EXCEPT !.file = 0]
  /\ Exit("ok")
  /\ UNCHANGED <<envv, block_size_kb, BLOCK_SIZE, file_size, num_blocks,
                 datav, parv, outv, fault_log>>

\* ------------------------------------------------------ specification
Next ==
  \/ ParseArgs
  \/ OpenInput
  \/ StatInput
  \/ AllocTable
  \/ LoadFile
  \/ \E w \in Threads : ClaimBlock(w)
  \/ \E w \in Threads : CompressResident(w)
  \/ \E w \in Threads : OpenBlock(w)
  \/ \E w \in Threads : AllocBlock(w)
  \/ \E w \in Threads : ReadBlock(w)
  \/ \E w \in Threads : CompressOnDemand(w)
  \/ \E w \in Threads : FinishBlock(w)
  \/ Barrier
  \/ OpenOutput
  \/ WriteBlock
  \/ CloseOutput

Spec == Init /\ [][Next]_vars

\* The configured block size is one the program's int holds.
ValidBlockSize ==
  /\ pc # "args"
  /\ block_size_kb > 0
  /\ InInt(block_size_kb * KbBytes)
  /\ BLOCK_SIZE = block_size_kb * KbBytes

\* The benchmark: the same command line and input run twice and the two
\* outputs compared (diff output_original.bz2 output_memopt.bz2).  The
\* second run writes a file of its own.  Here the second run is either the
\* other program with the same team size, or the same program with any team
\* size; only a first run that ended in success is followed by a second.
Rerun ==
  /\ pc = "done"
  /\ run = 1
  /\ exit_status = "ok"
  /\ run' = 2
  /\ prev' = [strategy |-> strategy, status |-> exit_status, out |-> out_file]
  /\ \/ strategy' \in Strategies \ {strategy} /\ nthreads' = nthreads
     \/ strategy' = strategy /\ nthreads' \in 1..MaxWorkers
  /\ pc' = "args"
  /\ exit_status' = "none"
  /\ block_size_kb' = DefaultKb
  /\ BLOCK_SIZE' = 0
  /\ file_size' = 0
  /\ num_blocks' = 0
  /\ compressed_blocks' = <<>>
  /\ file_data' = Null
  /\ compression_errors' = 0
  /\ completed' = 0
  /\ next_iter' = 0
  /\ workers' = [w \in 1..MaxWorkers |-> IdleWorker]
  /\ out_file' = NoFile
  /\ wr_i' = 0
  /\ live' = NoLive
  /\ claimed' = <<>>
  /\ out_of_order' = FALSE
  /\ fpos' = NoHandles
  /\ UNCHANGED <<input, argv, fault_log>>

NextTwoRuns == Next \/ Rerun

\* The benchmark makes its input before it runs the programs on it.
InitTwoRuns ==
  /\ Init
  /\ argv.files_ok
  /\ argv.b = -1 \/ (argv.b > 0 /\ InInt(argv.b * KbBytes))
  /\ input.exists

SpecTwoRuns == InitTwoRuns /\ [][NextTwoRuns]_vars

\* ------------------------------------------------------------ claims
\* Every thread has left the parallel loop.
PhaseEnded == \A w \in Threads : workers[w].pc = "exit"

\* The payloads of the table's first k entries, in index order.
RECURSIVE ConcatPayloads(_, _)
ConcatPayloads(blocks, k) ==
  IF k = 0 THEN <<>>
  ELSE ConcatPayloads(blocks, k - 1) \o blocks[k].data.bytes

\* C6: no loop index is handed out twice or lies outside [0, num_blocks), no
\* two threads hold the same index, and once every thread has left the loop
\* every index in [0, num_blocks) has been handed out, no matter how many
\* blocks failed, and its entry is a compressed block (data with its size)
\* or a failure marker (NULL data).
C6_ExactlyOnce ==
  /\ \A j, k \in DOMAIN claimed : j # k => claimed[j] # claimed[k]
  /\ \A k \in DOMAIN claimed : claimed[k] >= 0 /\ claimed[k] < num_blocks
  /\ \A v, w \in Threads :
       v # w /\ Busy(v) /\ Busy(w) => workers[v].i # workers[w].i
  /\ PhaseEnded =>
       /\ \A i \in 0..(num_blocks - 1) : \E k \in DOMAIN claimed : claimed[k] = i
       /\ Len(compressed_blocks) = num_blocks
       /\ \A i \in 0..(num_blocks - 1) :
            LET e == compressed_blocks[i + 1]
            IN  \/ e.data.isnull
                \/ /\ e.size = Len(e.data.bytes)
                   /\ Bunzip(e.data.bytes).ok
                   /\ Len(Bunzip(e.data.bytes).bytes) = e.original_size

\* Two threads ended a loop of three blocks or more in which blocks failed
\* and a block overtook a lower one.
C6_Witness ==
  /\ PhaseEnded
  /\ nthreads = 2
  /\ num_blocks >= 3
  /\ compression_errors > 0
  /\ compressed_blocks[1].data.isnull
  /\ ~compressed_blocks[num_blocks].data.isnull
  /\ out_of_order

\* C7: while the writer runs, and when the run has ended in success, the
\* output file holds exactly the payloads of blocks 0 .. wr_i - 1 in
\* ascending index order and nothing else; at a successful end that is every
\* block.
C7_OutputOrder ==
  /\ pc = "writing" =>
       /\ out_file.exists
       /\ out_file.bytes = ConcatPayloads(compressed_blocks, wr_i)
  /\ exit_status = "ok" =>
       /\ out_file.exists
       /\ out_file.bytes = ConcatPayloads(compressed_blocks, num_blocks)

\* A successful run of three blocks or more in which a block completed
\* before a lower one.
C7_Witness ==
  /\ exit_status = "ok"
  /\ num_blocks >= 3
  /\ out_of_order
  /\ Len(out_file.bytes) > 0

\* C1: a run with a valid block size in which no call failed, and that
\* ended in success, wrote a file that bzip2 -d turns back into exactly the
\* input's bytes.
C1_RoundTrip ==
  (exit_status = "ok" /\ ValidBlockSize /\ input.exists /\ fault_log = {})
    => Bunzip(out_file.bytes).bytes = input.bytes

\* C2: with a block size above 0 and the input's length known, the offset
\* and length a thread computes for block i are i * block_size and
\* min(block_size, total_length - i * block_size): the blocks are contiguous,
\* do not overlap, cover the input, and only the last may be shorter.
C2_PlanCoverage ==
  (ValidBlockSize /\ file_size >= 0) =>
    \A w \in Threads :
      Busy(w) =>
        /\ workers[w].offset = workers[w].i * BLOCK_SIZE
        /\ workers[w].block_size =
             Min(BLOCK_SIZE, file_size - workers[w].i * BLOCK_SIZE)
        /\ workers[w].block_size > 0

\* C3: a successful run of one program after a successful run of the other,
\* on the same input (whose length both obtained) with the same valid block
\* size and team size, wrote the same bytes.
C3_StrategyEquivalence ==
  (run = 2 /\ exit_status = "ok" /\ prev.status = "ok"
     /\ prev.strategy # strategy /\ ValidBlockSize
     /\ \A f \in fault_log : f[1] # "stat")
    => out_file = prev.out

\* C4: a successful run after a successful run of the same program on the
\* same input with the same valid block size, with any team size and any
\* interleaving, in neither of which a call failed, wrote the same bytes.
C4_WorkerCountInvariance ==
  (run = 2 /\ exit_status = "ok" /\ prev.status = "ok"
     /\ prev.strategy = strategy /\ ValidBlockSize
     /\ fault_log = {})
    => out_file = prev.out

\* The calls made while one block is read and compressed.
BlockFaultKinds ==
  {"fopen", "malloc_in", "fseek", "fread", "malloc_out", "bz2", "realloc"}

\* C5: when the environment failed exactly one call, and that call belongs
\* to the read or the compression of one block k of an input whose plan is
\* exact, then after the parallel phase the failure count is exactly 1,
\* every other block has a compressed entry, the writer is never invoked and
\* no output file exists.
C5_PartialFailureIsolation ==
  \A f \in fault_log :
    (/\ fault_log = {f}
     /\ f[1] \in BlockFaultKinds
     /\ ValidBlockSize
     /\ file_size = Len(input.bytes)
     /\ file_size < UIntMod
     /\ PhaseEnded
     /\ pc \in {"write", "writing", "done"})
    => /\ compression_errors = 1
       /\ \A i \in 0..(num_blocks - 1) :
            i # f[2] => ~compressed_blocks[i + 1].data.isnull
       /\ pc = "done"
       /\ exit_status = "fail"
       /\ ~out_file.exists

\* The threads that hold an input block buffer.
Holders == {w \in Threads : workers[w].pc \in {"alloc", "read", "compressed"}}

RECURSIVE SumBlockSizes(_)
SumBlockSizes(S) ==
  IF S = {} THEN 0
  ELSE LET w == CHOOSE x \in S : TRUE
       IN  workers[w].block_size + SumBlockSizes(S \ {w})

C9_NoOutputAfterFailure ==
  (exit_status = "fail" /\ ValidBlockSize) => ~out_file.exists

\* C10: once the arguments are accepted, the block size in bytes the run
\* works with is above 0 (a configuration for which it is not ends the run
\* in ParseArgs, before the input is opened, sized or read).
C10_BlockSizePositive ==
  pc \in {"open_input", "stat", "calloc", "load", "parallel", "write", "writing"}
    => BLOCK_SIZE > 0

\* The length was obtained and neither it nor any offset needs more than
\* the unsigned int holds.
PlanExact ==
  /\ ValidBlockSize
  /\ file_size = Len(input.bytes)
  /\ file_size < UIntMod

\* C11: in the on-demand program, with an exact plan, the buffer a thread
\* passes to compress_block for block i holds exactly the input's bytes at
\* [offset, offset + block_size): a block whose open, seek or read failed
\* never gets that far (it is counted as failed instead).
C11_OnDemandReadFailures ==
  (strategy = "ondemand" /\ PlanExact) =>
    \A w \in Threads :
      workers[w].pc \in {"read", "compressed"} =>
        workers[w].block_data.bytes =
          Slice(input.bytes, workers[w].offset, workers[w].block_size)

\* Every index of the loop has been handed to a thread.
AllAttempted ==
  \A i \in 0..(num_blocks - 1) : \E k \in DOMAIN claimed : claimed[k] = i

\* C12: while main is at or in the writer, and whenever the output file
\* exists, every block index has been attempted, every thread has left the
\* loop and none holds a block; and main is at or in the writer only with a
\* failure count of zero.
C12_PhaseOrdering ==
  /\ (pc \in {"write", "writing"} \/ out_file.exists) =>
       /\ AllAttempted
       /\ PhaseEnded
       /\ \A w \in Threads : ~Busy(w)
  /\ pc \in {"write", "writing"} => compression_errors = 0

\* The writer is part way through the output of a run of two threads and
\* three blocks or more whose blocks completed out of index order.
C12_Witness ==
  /\ pc = "writing"
  /\ wr_i > 0 /\ wr_i < num_blocks
  /\ Len(out_file.bytes) > 0
  /\ nthreads = 2
  /\ num_blocks >= 3
  /\ out_of_order

\* The indices whose table entry is a failure marker (NULL data).
FailedBlocks ==
  {i \in 0..(num_blocks - 1) : compressed_blocks[i + 1].data.isnull}

\* C13: with an exact plan, once every thread has left the loop the failure
\* counter equals the number of blocks that produced no compressed entry,
\* under every interleaving of the threads.
C13_FailureCounterExact ==
  (PlanExact /\ PhaseEnded) => compression_errors = Cardinality(FailedBlocks)

\* (side condition: the same, in runs in which no realloc failed)
C13_ExactButForRealloc ==
  (PlanExact /\ PhaseEnded /\ \A f \in fault_log : f[1] # "realloc")
    => compression_errors = Cardinality(FailedBlocks)

\* C14: with a valid block size and the input's length obtained, whatever
\* that length, the block count is ceil(file_size / BLOCK_SIZE), and for the
\* block i a thread holds the offset is i * BLOCK_SIZE, offset + block_size
\* does not pass the end of the input, and block_size is
\* min(BLOCK_SIZE, file_size - offset): none of them is cut to 32 bits.
C14_OffsetArithmetic ==
  (/\ ValidBlockSize
   /\ file_size = Len(input.bytes)
   /\ pc \in {"calloc", "load", "parallel", "write", "writing"})
  => /\ num_blocks = (file_size + BLOCK_SIZE - 1) \div BLOCK_SIZE
     /\ \A w \in Threads :
          Busy(w) =>
            /\ workers[w].offset = workers[w].i * BLOCK_SIZE
            /\ workers[w].offset + workers[w].block_size <= file_size
            /\ workers[w].block_size =
                 Min(BLOCK_SIZE, file_size - workers[w].offset)

\* The allocations made while one block is processed.
BlockAllocKinds == {"malloc_in", "malloc_out", "realloc"}

\* C15: with an exact plan, once every thread has left the loop, a block
\* for which an allocation failed is counted in the failure counter and its
\* entry is a failure marker; and no entry the writer reads has NULL data.
C15_AllocationFailures ==
  PlanExact =>
    /\ PhaseEnded =>
         \A f \in fault_log :
           (f[1] \in BlockAllocKinds /\ f[3] = run) =>
             /\ compression_errors >= 1
             /\ compressed_blocks[f[2] + 1].data.isnull
    /\ pc = "writing" =>
         \A i \in 0..(num_blocks - 1) : ~compressed_blocks[i + 1].data.isnull

\* ------------------------------------------------------------ fairness
\* The steps of the initial thread outside the loop.
MainStep ==
  \/ ParseArgs \/ OpenInput \/ StatInput \/ AllocTable \/ LoadFile
  \/ Barrier \/ OpenOutput \/ WriteBlock \/ CloseOutput

\* The steps of thread w of the team inside the loop.
WorkerStep(w) ==
  /\ w \in Threads
  /\ \/ ClaimBlock(w) \/ CompressResident(w) \/ OpenBlock(w) \/ AllocBlock(w)
     \/ ReadBlock(w) \/ CompressOnDemand(w) \/ FinishBlock(w)

\* Every thread that can run is run in the end (the operating system's
\* scheduler), and every library call returns.
Fairness ==
  /\ WF_vars(MainStep)
  /\ \A w \in 1..MaxWorkers : WF_vars(WorkerStep(w))

SpecFair == Init /\ [][Next]_vars /\ Fairness

\* Inside the loop no thread waits for another: a thread of the team that
\* has not left the loop can take its next step whatever the others do.
NoWaiting ==
  pc = "parallel" =>
    \A w \in Threads : workers[w].pc # "exit" => ENABLED WorkerStep(w)

C17_GreedyAssignment ==
  /\ Len(claimed) = next_iter
  /\ \A k \in DOMAIN claimed : claimed[k] = k - 1
  /\ \A v, w \in Threads :
       (v # w /\ Busy(v) /\ Busy(w)) => workers[v].i # workers[w].i
  /\ \A w \in Threads :
       /\ workers[w].pc = "exit" => next_iter >= num_blocks
       /\ (pc = "parallel" /\ workers[w].pc = "idle" /\ next_iter < num_blocks)
            => ENABLED (ClaimBlock(w) /\ workers'[w].pc = "claimed"
                                      /\ workers'[w].i = next_iter)

\* One thread still holds block 0 while the other, done with block 1, has
\* taken block 2.
C17_Witness ==
  /\ pc = "parallel"
  /\ nthreads = 2
  /\ \E v, w \in Threads :
       /\ Busy(v) /\ workers[v].i = 0
       /\ Busy(w) /\ workers[w].i = 2

\* C18: in the on-demand program, with an exact plan, under every
\* interleaving of the threads, the bytes a thread holds for block i after
\* its read are the input's bytes at the position its own seek left its own
\* handle at, whatever the other threads opened, sought and read meanwhile:
\* the bytes at [offset, offset + block_size) whenever its seek did not fail.
C18_IndependentReads ==
  (strategy = "ondemand" /\ PlanExact) =>
    \A w \in Threads :
      workers[w].pc \in {"read", "compressed"} =>
        LET me == workers[w]
            own == IF <<"fseek", me.i, run>> \in fault_log THEN 0 ELSE me.offset
        IN  me.block_data.bytes = Slice(input.bytes, own, me.block_size)

\* Between the seek and the read of one thread's block, at an offset above
\* 0, the other thread opened its handle, sought and read another block;
\* the first thread then read.
C18_Witness ==
  /\ strategy = "ondemand"
  /\ PlanExact
  /\ nthreads = 2
  /\ fault_log = {}
  /\ \E v, w \in Threads :
       /\ workers[v].pc = "read" /\ workers[v].offset > 0
       /\ workers[w].pc = "read" /\ workers[w].i > workers[v].i

\* Nothing is freed that is not allocated.
NoDoubleFree ==
  live.in >= 0 /\ live.out >= 0 /\ live.table \in {0, 1} /\ live.file \in {0, 1}

\* C19: nothing is freed twice, and when main has returned (with 0 or 1)
\* from a run with an exact plan nothing it allocated is still allocated: not the table, the file copy,
\* an input block buffer or a compressed payload.
C19_BufferLifecycle ==
  /\ NoDoubleFree
  /\ (PlanExact /\ exit_status \in {"ok", "fail"}) => live = NoLive

\* (side condition: the same, in runs in which no realloc failed)
C19_FreedButForRealloc ==
  /\ NoDoubleFree
  /\ (/\ PlanExact
      /\ exit_status \in {"ok", "fail"}
      /\ \A f \in fault_log : f[1] # "realloc")
       => live = NoLive

\* C20: a run of either program on an existing input of length 0, with a
\* valid block size and no failing call, plans zero blocks, hands no index to
\* any thread, counts no failure, and when it has ended it has ended in
\* success with an output file that exists and is empty.
C20_ZeroLengthInput ==
  (/\ input.exists /\ Len(input.bytes) = 0
   /\ ValidBlockSize
   /\ fault_log = {})
  => /\ pc \in {"calloc", "load", "parallel", "write", "writing", "done"}
          => num_blocks = 0 /\ file_size = 0
     /\ claimed = <<>>
     /\ \A w \in Threads : ~Busy(w)
     /\ compression_errors = 0
     /\ pc = "done" => exit_status = "ok" /\ out_file = File(<<>>)
     /\ out_file.exists => out_file.bytes = <<>>

\* A run of two threads on an empty input has ended, with an empty output.
C20_Witness ==
  /\ input.exists /\ Len(input.bytes) = 0
  /\ ValidBlockSize
  /\ fault_log = {}
  /\ nthreads = 2
  /\ PhaseEnded
  /\ pc = "done"
  /\ out_file.exists

\* C21: when the input's length could not be obtained (get_file_size gave
\* -1) in a run with a valid block size and no other failing call, the run
\* never creates the output file, and when it has ended it has ended in
\* failure.
C21_UnknownLength ==
  (/\ ValidBlockSize
   /\ file_size = -1
   /\ \A f \in fault_log : f[1] = "stat")
  => /\ ~out_file.exists
     /\ pc = "done" => exit_status = "fail"

\* (side condition: the same, of the resident program alone, which opens
\* the input before it asks for its length and cannot allocate the copy)
C21_ResidentFails ==
  (/\ strategy = "resident"
   /\ ValidBlockSize
   /\ file_size = -1
   /\ \A f \in fault_log : f[1] = "stat")
  => /\ pc \in {"calloc", "load", "done"}
     /\ ~out_file.exists
     /\ pc = "done" => exit_status = "fail"

\* Every block index in [0, num_blocks) was handed out and left a
\* compressed payload in its table entry.
AllCompressed ==
  /\ Len(compressed_blocks) = num_blocks
  /\ AllAttempted
  /\ PhaseEnded
  /\ FailedBlocks = {}

\* The output file holds every entry's payload in full.
AllWritten ==
  /\ Len(compressed_blocks) = num_blocks
  /\ out_file.exists
  /\ out_file.bytes = ConcatPayloads(compressed_blocks, num_blocks)

\* C22: a run in which no call failed and that has ended has exited with
\* status 0 or 1, and with 0 exactly when every block index in
\* [0, num_blocks) was compressed successfully and every payload was
\* written in full to the output file.
C22_ExitStatus ==
  (pc = "done" /\ fault_log = {}) =>
    /\ exit_status \in {"ok", "fail"}
    /\ exit_status = "ok" <=> (AllCompressed /\ AllWritten)

\* (side condition: whatever failed, a run that returned from main returned
\* 0 exactly when every block was compressed and written in full)
C22_StatusRightUnlessKilled ==
  (pc = "done" /\ exit_status # "crash") =>
    (exit_status = "ok" <=> (AllCompressed /\ AllWritten))

\* The block size is valid and the length main works with is one the
\* unsigned int holds.
PlanInRange == ValidBlockSize /\ file_size < UIntMod

\* (side condition: the same, of runs with a plan in range in which no
\* realloc failed)
C22_ExitStatusButForRealloc ==
  (pc = "done" /\ PlanInRange /\ \A f \in fault_log : f[1] # "realloc") =>
    /\ exit_status \in {"ok", "fail"}
    /\ exit_status = "ok" <=> (AllCompressed /\ AllWritten)

====
